---- MODULE Spec2Model ----
(***************************************************************************)
(* Daymark: the Florida scoring engine (src/florida_scoring.py), the       *)
(* per-county report, the daily-status route and the snapshot collector    *)
(* (src/app/main.py).                                                      *)
(*                                                                         *)
(* Numbers.  The program computes its scores with Python floats, that is   *)
(* IEEE-754 doubles: a literal is the double nearest to its decimal, and   *)
(* every product, sum and difference is the exact result rounded to 53     *)
(* significant bits, ties to even.  0.70 * 12 is 8.399999999999999, not    *)
(* 8.4, and such a last-digit difference can move a value across a band    *)
(* edge.  The model computes the same doubles.  A double is held as a sign *)
(* and a magnitude, the magnitude being the integer  |x| * 2^60  written   *)
(* in NumLimbs digits of base 4096, least significant first.  Every double *)
(* of magnitude between 2^-8 and 4096, and zero, is held exactly; the      *)
(* values of the engine and the inputs drawn below lie in that range.      *)
(***************************************************************************)
EXTENDS Integers, Sequences, FiniteSets, Bags, TLC

VARIABLES
    fn, args, result,                 \* scoring engine: the last call made
    \* one /api/daymark request
    dpc,            \* where the handler is: "nws", "airnow", "returned", "raised"
    api_key_set,    \* AIRNOW_API_KEY is not empty
    alert_count, aqi, score, drivers, add_items,    \* the handler's locals
    feed_failed,    \* the feed whose call raised: "none", "nws", "airnow"
    response,       \* the body returned
    \* the application process: startup hook and collection runs
    database_url,   \* DATABASE_URL is set
    db_pool,        \* _db_pool: 0 is None, k > 0 the k-th pool created
    pools_created,  \* calls of asyncpg.create_pool so far
    pc, got_pool,   \* per caller: position, and the pool get_db_pool returned
    run_id, snapshot_at, results,   \* per run: the handler's locals
    table,          \* insurer_snapshots: a bag of rows
    clock, uuids    \* the wall clock, and the uuid4 values handed out

scoreVars   == <<fn, args, result>>
dayVars     == <<dpc, api_key_set, alert_count, aqi, score, drivers, add_items,
                 feed_failed, response>>
collectVars == <<database_url, db_pool, pools_created, pc, got_pool,
                 run_id, snapshot_at, results, table, clock, uuids>>
vars        == <<scoreVars, dayVars, collectVars>>

-----------------------------------------------------------------------------
(* Python float arithmetic *)

\* digits of a magnitude are in base 4096, LimbBits bits each
Base == 64 * 64
LimbBits == 12
\* a magnitude has FracLimbs digits below the binary point, NumLimbs in all
FracLimbs == 5
NumLimbs == 6
\* significant bits of a double
MantBits == 53

\* P2[k + 1] = 2^k, P10[d + 1] = 10^d
P2 == <<1, 2, 4, 8, 16, 32, 64, 128, 256, 512, 1024, 2048, 4096>>
P10 == <<1, 10, 100, 1000, 10000>>

\* the digits of the number whose i-th digit, before carries, is d[i]
RECURSIVE Carry(_, _, _)
Carry(d, i, c) ==
    IF i > Len(d) THEN (IF c = 0 THEN <<>> ELSE <<c>>)
    ELSE LET t == d[i] + c
         IN  <<t % Base>> \o Carry(d, i + 1, t \div Base)

\* the highest and the lowest index of a non-zero digit, 0 when there is none
RECURSIVE Top(_, _)
Top(a, i) == IF i = 0 THEN 0 ELSE IF a[i] # 0 THEN i ELSE Top(a, i - 1)

RECURSIVE Low(_, _)
Low(a, i) == IF i > Len(a) THEN 0 ELSE IF a[i] # 0 THEN i ELSE Low(a, i + 1)

Span(a) == Top(a, Len(a)) - Low(a, 1)

\* the sum of a[i] * b[k + 1 - i] for i in lo..hi
RECURSIVE ColSum(_, _, _, _, _)
ColSum(a, b, k, lo, hi) ==
    IF lo > hi THEN 0
    ELSE a[lo] * b[k + 1 - lo] + ColSum(a, b, k, lo + 1, hi)

\* exact product, sum and difference (a >= b) of two magnitudes
\* a * b, the non-zero digits of a being those from lo to hi
BMulSpan(a, b, lo, hi) ==
    Carry([k \in 1..(Len(a) + Len(b)) |->
              IF hi = 0 THEN 0
              ELSE ColSum(a, b, k, IF k - Len(b) + 1 > lo THEN k - Len(b) + 1 ELSE lo,
                                   IF k < hi THEN k ELSE hi)], 1, 0)

BMul(a, b) == BMulSpan(a, b, Low(a, 1), Top(a, Len(a)))
BAdd(a, b) == Carry([i \in 1..(Len(a) + 1) |-> IF i <= Len(a) THEN a[i] + b[i] ELSE 0], 1, 0)
BSub(a, b) == Carry([i \in 1..Len(a) |-> a[i] - b[i]], 1, 0)

\* -1, 0, 1 as a < b, a = b, a > b, for magnitudes of one length
RECURSIVE BCmpFrom(_, _, _)
BCmpFrom(a, b, i) ==
    IF i = 0 THEN 0
    ELSE IF a[i] < b[i] THEN -1
    ELSE IF a[i] > b[i] THEN 1
    ELSE BCmpFrom(a, b, i - 1)

BCmp(a, b) == BCmpFrom(a, b, Len(a))

BitLenLimb(x) == CHOOSE k \in 1..LimbBits : P2[k] <= x /\ x < P2[k + 1]

BitLenTop(a, t) == IF t = 0 THEN 0 ELSE LimbBits * (t - 1) + BitLenLimb(a[t])

BitLen(a) == BitLenTop(a, Top(a, Len(a)))

Bit(a, i) == (a[(i \div LimbBits) + 1] \div P2[(i % LimbBits) + 1]) % 2

\* some bit among the k lowest is set
Sticky(a, k) ==
    \/ \E j \in 1..(k \div LimbBits) : a[j] # 0
    \/ a[(k \div LimbBits) + 1] % P2[(k % LimbBits) + 1] # 0

\* a rounded to a multiple of 2^k, ties to even; the bit of weight 2^k is in
\* digit `at`, where it weighs `unit`
RoundAt(a, k, at, unit) ==
    IF Bit(a, k - 1) = 1 /\ (Sticky(a, k - 1) \/ Bit(a, k) = 1)
    THEN Carry([i \in 1..Len(a) |-> IF i < at THEN 0
                                     ELSE IF i = at THEN a[i] - (a[i] % unit) + unit
                                     ELSE a[i]], 1, 0)
    ELSE [i \in 1..Len(a) |-> IF i < at THEN 0
                               ELSE IF i = at THEN a[i] - (a[i] % unit)
                               ELSE a[i]]

RoundBits(a, k) == RoundAt(a, k, (k \div LimbBits) + 1, P2[(k % LimbBits) + 1])

RoundLen(a, L) == IF L <= MantBits THEN a ELSE RoundBits(a, L - MantBits)

\* a magnitude rounded to MantBits significant bits, ties to even
Round53(a) == RoundLen(a, BitLen(a))

Zeros == [i \in 1..NumLimbs |-> 0]
FZero == [s |-> 1, m |-> Zeros]
Mk(s, m) == IF m = Zeros THEN FZero ELSE [s |-> s, m |-> m]

\* the NumLimbs digits of a above its lowest `from` digits
Fit(a, from) == [i \in 1..NumLimbs |-> IF i + from <= Len(a) THEN a[i + from] ELSE 0]

\* float(n) for an int n
FInt(n) ==
    [s |-> IF n < 0 THEN -1 ELSE 1, m |-> <<0, 0, 0, 0, 0, IF n < 0 THEN -n ELSE n>>]

FNeg(x) == Mk(-x.s, x.m)

\* quotient digits 1..i of (r * Base^i + a[1..i]) divided by dv, and the remainder
RECURSIVE DivSmall(_, _, _, _)
DivSmall(a, i, r, dv) ==
    IF i = 0 THEN [q |-> <<>>, r |-> r]
    ELSE LET t == r * Base + a[i]
             rest == DivSmall(a, i - 1, t % dv, dv)
         IN  [q |-> rest.q \o <<t \div dv>>, r |-> rest.r]

\* the quotient with its lowest bit set when the division left a remainder
Inexact(dq) ==
    IF dq.r # 0 /\ dq.q[1] % 2 = 0 THEN [dq.q EXCEPT ![1] = @ + 1] ELSE dq.q

\* the literal n / 10^d : the double nearest to it
FDec(n, d) ==
    Mk(1, Fit(Round53(Inexact(DivSmall(
                  [i \in 1..(2 * FracLimbs + 2) |->
                      IF i = 2 * FracLimbs + 1 THEN n % Base
                      ELSE IF i = 2 * FracLimbs + 2 THEN n \div Base ELSE 0],
                  2 * FracLimbs + 2, 0, P10[d + 1]))), FracLimbs))

\* x * y, x + y, x - y
FMul(x, y) ==
    Mk(x.s * y.s,
       Fit(Round53(IF Span(x.m) <= Span(y.m) THEN BMul(x.m, y.m) ELSE BMul(y.m, x.m)),
           FracLimbs))

\* x + y for x, y of opposite signs, c comparing their magnitudes
FDiff(x, y, c) ==
    Mk(IF c > 0 THEN x.s ELSE y.s,
       Fit(Round53(IF c > 0 THEN BSub(x.m, y.m) ELSE BSub(y.m, x.m)), 0))

FAdd(x, y) ==
    IF x.s = y.s THEN Mk(x.s, Fit(Round53(BAdd(x.m, y.m)), 0))
    ELSE FDiff(x, y, BCmp(x.m, y.m))

FSub(x, y) == FAdd(x, FNeg(y))

\* -1, 0, 1 as x < y, x = y, x > y
FCmp(x, y) == IF x.s # y.s THEN x.s ELSE x.s * BCmp(x.m, y.m)

Le(x, y) == FCmp(x, y) <= 0
Lt(x, y) == FCmp(x, y) < 0
Ge(x, y) == FCmp(x, y) >= 0

\* the whole number n
R(n) == FInt(n)

\* the literal t/10
Tenths(t) == FDec(t, 1)

\* 0.pp * x : the literal p/100 times x
Pct(p, x) == FMul(FDec(p, 2), x)

\* a * b
Mul(a, b) == FMul(a, b)

\* max(a, b) and min(a, b) as Python returns them: the first of equal values
Max2(a, b) == IF Ge(a, b) THEN a ELSE b
Min2(a, b) == IF Le(a, b) THEN a ELSE b

SetMax(S) == CHOOSE x \in S : \A y \in S : Le(y, x)
SetMin(S) == CHOOSE x \in S : \A y \in S : Le(x, y)

MaxScore == 100


-----------------------------------------------------------------------------
(* src/florida_scoring.py *)

clamp_identity(x, lo, hi) == x

clamp(x, lo, hi) == Max2(lo, Min2(hi, x))

\* clamp(x) with the defaults lo = 0, hi = 100
clamp100(x) == clamp(x, R(0), R(MaxScore))

FloridaInputs(month, heat_index_f, rain_24h_in, wind_sust_mph, tropical_flag, pop_density) ==
    [month |-> month, heat_index_f |-> heat_index_f, rain_24h_in |-> rain_24h_in,
     wind_sust_mph |-> wind_sust_mph, tropical_flag |-> tropical_flag,
     pop_density |-> pop_density]

\* the factor without its dense band
density_factor_two_bands(pop_density) ==
    IF Lt(pop_density, R(200)) THEN Tenths(8)
    ELSE R(1)

density_factor(pop_density) ==
    IF Lt(pop_density, R(200)) THEN Tenths(8)
    ELSE IF Lt(pop_density, R(800)) THEN R(1)
    ELSE Tenths(12)

heat_score_fl(month, heat_index_f) ==
    IF Le(heat_index_f, R(100)) THEN R(10)
    ELSE IF Le(heat_index_f, R(105)) THEN R(25)
    ELSE IF Le(heat_index_f, R(110)) THEN R(45)
    ELSE IF Le(heat_index_f, R(115)) THEN R(65)
    ELSE IF Le(heat_index_f, R(120)) THEN R(80)
    ELSE R(95)

rain_score_basic(r) ==
    IF Lt(r, R(1)) THEN R(10)
    ELSE IF Lt(r, R(2)) THEN R(30)
    ELSE IF Lt(r, R(4)) THEN R(55)
    ELSE IF Lt(r, R(6)) THEN R(75)
    ELSE R(90)

rain_score_fl(rain_24h_in, tropical_flag) ==
    IF tropical_flag THEN Max2(R(70), rain_score_basic(rain_24h_in))
    ELSE rain_score_basic(rain_24h_in)

wind_score_basic(w) ==
    IF Lt(w, R(20)) THEN R(5)
    ELSE IF Lt(w, R(36)) THEN R(30)
    ELSE IF Lt(w, R(51)) THEN R(55)
    ELSE IF Lt(w, R(71)) THEN R(75)
    ELSE R(95)

wind_score_fl(wind_sust_mph, tropical_flag) ==
    IF tropical_flag /\ Ge(wind_sust_mph, R(35))
    THEN Max2(R(75), wind_score_basic(wind_sust_mph))
    ELSE wind_score_basic(wind_sust_mph)

compute_wps_fl(heat, rain, wind) ==
    clamp100(FAdd(FAdd(Pct(50, heat), Pct(30, rain)), Pct(20, wind)))

compute_iss_fl(heat_score, pop_density, persistence_0_100) ==
    LET load_proxy == Mul(heat_score, density_factor(pop_density))
    IN  clamp100(FAdd(Pct(70, load_proxy), Pct(30, persistence_0_100)))

compute_cai_fl(wps, iss, das) ==
    clamp100(FAdd(FAdd(Pct(40, wps), Pct(45, iss)), Pct(15, das)))

sts_from_delta_cai(delta_3d) ==
    IF Le(delta_3d, R(2)) THEN R(10)
    ELSE IF Le(delta_3d, R(6)) THEN R(30)
    ELSE IF Le(delta_3d, R(10)) THEN R(55)
    ELSE IF Le(delta_3d, R(15)) THEN R(75)
    ELSE IF Le(delta_3d, R(22)) THEN R(90)
    ELSE R(100)

vex_from_range(range_5d) ==
    IF Le(range_5d, R(6)) THEN R(10)
    ELSE IF Le(range_5d, R(12)) THEN R(35)
    ELSE IF Le(range_5d, R(18)) THEN R(60)
    ELSE IF Le(range_5d, R(26)) THEN R(80)
    ELSE R(95)

fpc_from_forecast(forecast_wps_3d_avg, wind_score_max_3d, tropical_flag) ==
    IF tropical_flag THEN R(95)
    ELSE IF Ge(forecast_wps_3d_avg, R(65)) \/ Ge(wind_score_max_3d, R(75)) THEN R(80)
    ELSE IF Le(R(55), forecast_wps_3d_avg) /\ Le(forecast_wps_3d_avg, R(64)) THEN R(60)
    ELSE IF Le(R(45), forecast_wps_3d_avg) /\ Le(forecast_wps_3d_avg, R(54)) THEN R(35)
    ELSE R(15)

\* the adjustment with the forecast test dropped from the condition
wind_nuance_no_forecast(sts, wind_today_score, wind_48h_ago_score, forecast_wps_3d_avg, tropical_flag) ==
    IF Ge(FSub(wind_today_score, wind_48h_ago_score), R(25)) /\ Ge(wind_today_score, R(55))
    THEN Min2(FAdd(sts, R(10)), R(100))
    ELSE sts

apply_florida_wind_nuance(sts, wind_today_score, wind_48h_ago_score, forecast_wps_3d_avg, tropical_flag) ==
    IF Ge(FSub(wind_today_score, wind_48h_ago_score), R(25))
       /\ Ge(wind_today_score, R(55))
       /\ (tropical_flag \/ Ge(forecast_wps_3d_avg, R(55)))
    THEN Min2(FAdd(sts, R(10)), R(100))
    ELSE sts

compute_av(sts, vex, fpc) ==
    clamp100(FAdd(FAdd(Pct(50, sts), Pct(30, vex)), Pct(20, fpc)))

\* the cascade with the second and third tests in the other order
label_state_reordered(cai, av) ==
    IF Ge(cai, R(85)) THEN "Surge Risk"
    ELSE IF Ge(av, R(76)) THEN "Momentum Surge"
    ELSE IF Ge(cai, R(70)) /\ Ge(av, R(56)) THEN "High Risk + Accelerating"
    ELSE IF Ge(cai, R(55)) \/ Ge(av, R(56)) THEN "Building"
    ELSE "Stable"

label_state(cai, av) ==
    IF Ge(cai, R(85)) THEN "Surge Risk"
    ELSE IF Ge(cai, R(70)) /\ Ge(av, R(56)) THEN "High Risk + Accelerating"
    ELSE IF Ge(av, R(76)) THEN "Momentum Surge"
    ELSE IF Ge(cai, R(55)) \/ Ge(av, R(56)) THEN "Building"
    ELSE "Stable"

-----------------------------------------------------------------------------
(* src/app/main.py : the per-county report *)

\* lines 181-222, from the CAI on: the momentum scores, the label and the
\* scores map
ScoresFromCai(inputs_today, das, history_4d, wind_48h_ago_score, heat, rain, wind, wps, iss, cai) ==
    LET cai_history_5d == history_4d \o <<cai>>
        \* cai_history_5d[-4] is the second of the five entries
        delta_3d == FSub(cai, cai_history_5d[Len(cai_history_5d) - 3])
        sts0 == sts_from_delta_cai(delta_3d)
        hset == {cai_history_5d[i] : i \in 1..Len(cai_history_5d)}
        range_5d == FSub(SetMax(hset), SetMin(hset))
        vex  == vex_from_range(range_5d)
        forecast_wps_3d_avg == wps
        wind_score_max_3d == wind
        fpc  == fpc_from_forecast(forecast_wps_3d_avg, wind_score_max_3d,
                                  inputs_today.tropical_flag)
        sts  == apply_florida_wind_nuance(sts0, wind, wind_48h_ago_score,
                                          forecast_wps_3d_avg, inputs_today.tropical_flag)
        av   == compute_av(sts, vex, fpc)
        state_label == label_state(cai, av)
    IN  [scores |-> [HeatScore |-> heat, RainScore |-> rain, WindScore |-> wind,
                     WPS |-> wps, ISS |-> iss, DAS |-> das, CAI |-> cai,
                     STS |-> sts, VEX |-> vex, FPC |-> fpc, AV |-> av],
         state |-> state_label]

\* line 179, from the two indices on
ScoresFromIndices(inputs_today, das, history_4d, wind_48h_ago_score, heat, rain, wind, wps, iss) ==
    ScoresFromCai(inputs_today, das, history_4d, wind_48h_ago_score,
                  heat, rain, wind, wps, iss, compute_cai_fl(wps, iss, das))

\* lines 173-176, from the three sub-scores on
ScoresFromSubScores(inputs_today, persistence, das, history_4d, wind_48h_ago_score, heat, rain, wind) ==
    ScoresFromIndices(inputs_today, das, history_4d, wind_48h_ago_score,
                      heat, rain, wind,
                      compute_wps_fl(heat, rain, wind),
                      compute_iss_fl(heat, inputs_today.pop_density, persistence))

\* The body of compute_insurer_fl_county from the sub-scores to the scores
\* map and the label, over the values the code now fills with placeholders:
\* the observation, persistence, das, the four earlier entries of the CAI
\* history and the wind score of 48 hours ago.
ComputeScores(inputs_today, persistence, das, history_4d, wind_48h_ago_score) ==
    ScoresFromSubScores(
        inputs_today, persistence, das, history_4d, wind_48h_ago_score,
        heat_score_fl(inputs_today.month, inputs_today.heat_index_f),
        rain_score_fl(inputs_today.rain_24h_in, inputs_today.tropical_flag),
        wind_score_fl(inputs_today.wind_sust_mph, inputs_today.tropical_flag))

PlaceholderInputs(month) ==
    FloridaInputs(month, R(92), Tenths(2), R(18), FALSE, R(1200))

PlaceholderHistory == <<R(45), R(47), R(50), R(54)>>

\* lines 218-222: the report for a county
CountyReport(county, c) == [county |-> county, scores |-> c.scores, state |-> c.state]

\* month stands for datetime.utcnow().month
compute_insurer_fl_county(county, month) ==
    CountyReport(county, ComputeScores(PlaceholderInputs(month), R(40), R(10),
                                       PlaceholderHistory, R(30)))

\* src/daymark/scoring/florida.py is no part of the program: loading it stops
\* at line 15, router = APIRouter(), with a NameError, as APIRouter is not
\* imported, so the route insurer_florida_example of lines 17-65 is never
\* defined and nothing can call it.

-----------------------------------------------------------------------------
(* src/app/main.py : the daily-status route /api/daymark *)

MaxAlerts == 3
MaxAqi == 120

\* an optional value: None is the empty tuple, a value v is <<v>>
None == <<>>
Some(v) == <<v>>

\* a driver string: its fixed text and the number formatted into it, if any
Driver(text, n) == [text |-> text, n |-> n]

\* One observation of the AirNow payload; obs.get("AQI") may be None.
AirnowObservations ==
    [ParameterName : {"PM2.5", "O3"}, AQI : {None} \cup {Some(v) : v \in 0..MaxAqi}]

AirnowPayloads ==
    {<<>>} \cup {<<o>> : o \in AirnowObservations}
           \cup {<<o1, o2>> : o1 \in AirnowObservations, o2 \in AirnowObservations}

\* get_airnow_aqi when the request, if one is made, succeeds with payload data
get_airnow_aqi(key_set, data) ==
    IF ~key_set THEN None
    ELSE IF data = <<>> THEN None
    ELSE IF \E i \in 1..Len(data) : data[i].ParameterName = "PM2.5"
         THEN LET i == CHOOSE k \in 1..Len(data) :
                           /\ data[k].ParameterName = "PM2.5"
                           /\ \A j \in 1..(k - 1) : data[j].ParameterName # "PM2.5"
              IN  data[i].AQI
    ELSE data[1].AQI

\* lines 235-250: the locals after the weather-alert branch
AlertBranch(n) ==
    IF n = 0 THEN
        [score |-> 0,
         drivers |-> <<Driver("No active weather alerts", None)>>,
         add_items |-> <<>>]
    ELSE IF n = 1 THEN
        [score |-> 20,
         drivers |-> <<Driver("1 active weather alert", None)>>,
         add_items |-> <<"rain shell", "phone waterproof pouch", "small flashlight">>]
    ELSE
        [score |-> 35,
         drivers |-> <<Driver("active weather alerts", Some(n))>>,
         add_items |-> <<"rain shell", "phone waterproof pouch", "small flashlight",
                         "power bank">>]

\* the air-quality branch with the score increments of the earlier variants
AqiBranchScored(st, a) ==
    IF a = None THEN
        [st EXCEPT !.drivers = Append(@, Driver("Air quality data unavailable", None))]
    ELSE IF a[1] <= 50 THEN
        [st EXCEPT !.drivers = Append(@, Driver("Air quality: Good", a))]
    ELSE IF a[1] <= 100 THEN
        [st EXCEPT !.score = @ + 10,
                   !.drivers = Append(@, Driver("Air quality: Moderate", a))]
    ELSE
        [st EXCEPT !.score = @ + 25,
                   !.drivers = Append(@, Driver("Air quality: Unhealthy", a)),
                   !.add_items = Append(@, "N95 mask (air quality)")]

\* lines 256-264: the locals after the air-quality branch
AqiBranch(st, a) ==
    IF a = None THEN
        [st EXCEPT !.drivers = Append(@, Driver("Air quality data unavailable", None))]
    ELSE IF a[1] <= 50 THEN
        [st EXCEPT !.drivers = Append(@, Driver("Air quality: Good", a))]
    ELSE IF a[1] <= 100 THEN
        [st EXCEPT !.drivers = Append(@, Driver("Air quality: Moderate", a))]
    ELSE
        [st EXCEPT !.drivers = Append(@, Driver("Air quality: Unhealthy", a)),
                   !.add_items = Append(@, "N95 mask (air quality)")]

\* lines 267-274
StatusFromScore(s) ==
    IF s <= 24 THEN "GREEN"
    ELSE IF s <= 44 THEN "YELLOW"
    ELSE IF s <= 64 THEN "ORANGE"
    ELSE "RED"

RECURSIVE DedupeFrom(_, _, _, _)
\* the comprehension of line 278 from position i on, with the set seen so far;
\* keep_new is the "not" of its filter
DedupeFrom(items, i, seen, keep_new) ==
    IF i > Len(items) THEN <<>>
    ELSE IF items[i] \in seen
         THEN (IF keep_new THEN <<>> ELSE <<items[i]>>)
              \o DedupeFrom(items, i + 1, seen, keep_new)
         ELSE (IF keep_new THEN <<items[i]>> ELSE <<>>)
              \o DedupeFrom(items, i + 1, seen \cup {items[i]}, keep_new)

\* the filter without its "not": only repeated occurrences are kept
DedupeInverted(items) == DedupeFrom(items, 1, {}, FALSE)

\* lines 277-278
Dedupe(items) == DedupeFrom(items, 1, {}, TRUE)

NoResponse ==
    [status |-> "", score |-> 0, drivers |-> <<>>, add_items |-> <<>>,
     air_quality |-> [aqi |-> None]]

DaymarkIdle(key_set) ==
    /\ dpc = "nws"
    /\ api_key_set = key_set
    /\ alert_count = 0
    /\ aqi = None
    /\ score = 0
    /\ drivers = <<>>
    /\ add_items = <<>>
    /\ feed_failed = "none"
    /\ response = NoResponse

-----------------------------------------------------------------------------
(* src/app/main.py : the connection pool, the startup hook, the collector *)

MaxRuns == 2

STARTER_FL_COUNTIES ==
    <<"Duval", "Miami-Dade", "Hillsborough", "Orange", "Broward", "Palm Beach">>

\* caller 0 is the startup hook, callers 1..MaxRuns are collection requests
StartupHook == 0
Runs == 1..MaxRuns
Callers == {StartupHook} \cup Runs

\* the pool that caller p's call of asyncpg.create_pool returns
PoolOf(p) == p + 1

\* where caller p goes on when get_db_pool returns
AfterPool(p) == IF p = StartupHook THEN "ddl" ELSE "acquire"

\* the insert with the snapshot_at column left to its default now()
record_snapshot_default_time(rid, at, state, county, scores, state_label, model_version) ==
    [run_id |-> rid, snapshot_at |-> clock, state |-> state, county |-> county,
     scores |-> scores, state_label |-> state_label, model_version |-> model_version]

\* the row record_snapshot inserts (the id column is the table's own)
record_snapshot(rid, at, state, county, scores, state_label, model_version) ==
    [run_id |-> rid, snapshot_at |-> at, state |-> state, county |-> county,
     scores |-> scores, state_label |-> state_label, model_version |-> model_version]

\* datetime.utcnow().month, line 161, at clock t: the clock counts months
MonthOf(t) == (t % 12) + 1

\* the hook that leaves the pool to its lazy creation
StartupSkipsDb == FALSE

\* line 109: the startup hook initialises the database when DATABASE_URL is set
StartupInitsDb == database_url

CollectorIdle(url) ==
    /\ database_url = url
    /\ db_pool = 0
    /\ pools_created = 0
    /\ pc = [p \in Callers |-> IF p = StartupHook THEN "boot" ELSE "idle"]
    /\ got_pool = [p \in Callers |-> 0]
    /\ run_id = [r \in Runs |-> 0]
    /\ snapshot_at = [r \in Runs |-> 0]
    /\ results = [r \in Runs |-> <<>>]
    /\ table = EmptyBag
    /\ clock = 0
    /\ uuids = 0

-----------------------------------------------------------------------------
(* The scoring engine as a machine: each action is one call, on inputs     *)
(* drawn from a sample of the function's domain.                           *)

Months == 1..12
CountyNames == {STARTER_FL_COUNTIES[i] : i \in 1..Len(STARTER_FL_COUNTIES)} \cup {"Alachua"}

\* the multiples of 0.5 in [0, 100]
HalfGrid == {FMul(Tenths(5), R(k)) : k \in 0..(2 * MaxScore)}

HeatIndexSamples == {R(100), Tenths(1001), R(108), R(113), R(120), R(121)}
RainSamples      == {Tenths(2), R(3), R(6)}
WindSamples      == {R(18), R(35), R(51), R(80)}
DensitySamples   == {R(0), R(500), R(1200)}
PersistenceSamples == {R(0), R(100)}
DasSamples       == {R(0), R(10), R(100)}
HistorySamples   == {PlaceholderHistory,
                     <<R(0), R(0), R(0), R(0)>>,
                     <<R(20), R(5), R(20), R(30)>>,
                     <<R(0), R(100), R(50), R(20)>>}
Wind48Samples    == {R(30), R(100)}

StsSamples       == {R(10), R(30), R(55), R(75), R(90), R(95), R(100)}
WindScoreSamples == {R(5), R(30), R(54), R(55), R(60), R(75), R(95)}
WindAgoSamples   == {R(0), R(5), R(30), R(31), R(35), R(36), R(50), R(55), R(70), R(95)}
ForecastSamples  == {R(0), R(50), Tenths(545), R(55), R(60), R(100)}

ScoringIdle == fn = "none" /\ args = <<>> /\ result = 0

InitScoring ==
    /\ ScoringIdle
    /\ DaymarkIdle(FALSE)
    /\ CollectorIdle(FALSE)

CallLabelState ==
    /\ fn = "none"
    /\ \E cai \in HalfGrid, av \in HalfGrid :
        /\ fn' = "label_state"
        /\ args' = <<cai, av>>
        /\ result' = label_state(cai, av)
        /\ UNCHANGED <<dayVars, collectVars>>

CallWindNuance ==
    /\ fn = "none"
    /\ \E sts \in StsSamples, wt \in WindScoreSamples, wa \in WindAgoSamples,
       fc \in ForecastSamples, tf \in BOOLEAN :
        /\ fn' = "apply_florida_wind_nuance"
        /\ args' = <<sts, wt, wa, fc, tf>>
        /\ result' = apply_florida_wind_nuance(sts, wt, wa, fc, tf)
        /\ UNCHANGED <<dayVars, collectVars>>

\* two calls of fpc_from_forecast on forecasts a <= b, same wind score
CallFpcPair ==
    /\ fn = "none"
    /\ \E a \in HalfGrid, b \in HalfGrid, w \in {R(5), R(55), R(75)} :
        /\ Le(a, b)
        /\ fn' = "fpc_from_forecast"
        /\ args' = <<a, b, w, FALSE>>
        /\ result' = <<fpc_from_forecast(a, w, FALSE), fpc_from_forecast(b, w, FALSE)>>
        /\ UNCHANGED <<dayVars, collectVars>>

CallComputeCounty ==
    /\ fn = "none"
    /\ \E county \in CountyNames, month \in Months :
        /\ fn' = "compute_insurer_fl_county"
        /\ args' = <<county, month>>
        /\ result' = compute_insurer_fl_county(county, month)
        /\ UNCHANGED <<dayVars, collectVars>>

CallPipeline ==
    /\ fn = "none"
    /\ \E hi \in HeatIndexSamples, rn \in RainSamples, wd \in WindSamples,
       tf \in BOOLEAN, pd \in DensitySamples, ps \in PersistenceSamples,
       da \in DasSamples, hs \in HistorySamples, wa \in Wind48Samples :
        /\ fn' = "pipeline"
        /\ args' = <<hi, rn, wd, tf, pd, ps, da, hs, wa>>
        /\ result' = ComputeScores(FloridaInputs(1, hi, rn, wd, tf, pd), ps, da, hs, wa)
        /\ UNCHANGED <<dayVars, collectVars>>

NextScoring ==
    \/ CallLabelState
    \/ CallWindNuance
    \/ CallFpcPair
    \/ CallComputeCounty
    \/ CallPipeline

SpecScoring == InitScoring /\ [][NextScoring]_vars

-----------------------------------------------------------------------------
(* One /api/daymark request.  The handler awaits the alert feed, then the  *)
(* air-quality feed; each await ends by a return or by an exception        *)
(* (raise_for_status, a transport error, the 15 s timeout).  The handler   *)
(* has no try/except, so an exception leaves it.                           *)

InitDaymark ==
    /\ ScoringIdle
    /\ \E k \in BOOLEAN : DaymarkIdle(k)
    /\ CollectorIdle(FALSE)

\* get_nws_alert_count returns len(features); lines 235-250 run
NwsReturns ==
    /\ dpc = "nws"
    /\ \E n \in 0..MaxAlerts :
        LET st == AlertBranch(n)
        IN  /\ alert_count' = n
            /\ score' = st.score
            /\ drivers' = st.drivers
            /\ add_items' = st.add_items
    /\ dpc' = "airnow"
    /\ UNCHANGED <<api_key_set, aqi, feed_failed, response, scoreVars, collectVars>>

\* get_nws_alert_count raises
NwsRaises ==
    /\ dpc = "nws"
    /\ feed_failed' = "nws"
    /\ dpc' = "raised"
    /\ UNCHANGED <<api_key_set, alert_count, aqi, score, drivers, add_items,
                   response, scoreVars, collectVars>>

\* get_airnow_aqi returns; lines 254-286 run.  add_items stays the list as
\* accumulated by the two branches, response.add_items is the list of line 278.
AirnowReturns ==
    /\ dpc = "airnow"
    /\ \E data \in (IF api_key_set THEN AirnowPayloads ELSE {<<>>}) :
        LET a  == get_airnow_aqi(api_key_set, data)
            st == AqiBranch([score |-> score, drivers |-> drivers,
                             add_items |-> add_items], a)
        IN  /\ aqi' = a
            /\ score' = st.score
            /\ drivers' = st.drivers
            /\ add_items' = st.add_items
            /\ response' = [status |-> StatusFromScore(st.score),
                            score |-> st.score,
                            drivers |-> st.drivers,
                            add_items |-> Dedupe(st.add_items),
                            air_quality |-> [aqi |-> a]]
    /\ dpc' = "returned"
    /\ UNCHANGED <<api_key_set, alert_count, feed_failed, scoreVars, collectVars>>

\* get_airnow_aqi raises (only with a key is a request made)
AirnowRaises ==
    /\ dpc = "airnow"
    /\ api_key_set
    /\ feed_failed' = "airnow"
    /\ dpc' = "raised"
    /\ UNCHANGED <<api_key_set, alert_count, aqi, score, drivers, add_items,
                   response, scoreVars, collectVars>>

NextDaymark ==
    \/ NwsReturns
    \/ NwsRaises
    \/ AirnowReturns
    \/ AirnowRaises

SpecDaymark == InitDaymark /\ [][NextDaymark]_vars

-----------------------------------------------------------------------------
(* The application process.  Coroutines run on one event loop: a step is   *)
(* the code between two awaits.  The server awaits the startup hook before *)
(* it serves a request, and exits when the hook raises.  Runs are numbered *)
(* in the order they begin.  A run reads the clock at line 299 for its     *)
(* snapshot_at, and the clock has moved on when the run computes its first *)
(* report.                                                                 *)

InitCollector ==
    /\ ScoringIdle
    /\ DaymarkIdle(FALSE)
    /\ \E url \in BOOLEAN : CollectorIdle(url)

\* get_db_pool, lines 45-49, up to its await or its return, for caller p
GetDbPoolEnter(p) ==
    IF db_pool = 0
    THEN IF ~database_url
         THEN /\ pc' = [pc EXCEPT ![p] = "raised"]
              /\ UNCHANGED <<pools_created, got_pool>>
         ELSE /\ pools_created' = pools_created + 1
              /\ pc' = [pc EXCEPT ![p] = "creating"]
              /\ UNCHANGED got_pool
    ELSE /\ got_pool' = [got_pool EXCEPT ![p] = db_pool]
         /\ pc' = [pc EXCEPT ![p] = AfterPool(p)]
         /\ UNCHANGED pools_created

\* _startup: ensure_tables, and with it get_db_pool, only with DATABASE_URL
Startup ==
    /\ pc[StartupHook] = "boot"
    /\ IF StartupInitsDb
       THEN GetDbPoolEnter(StartupHook)
       ELSE /\ pc' = [pc EXCEPT ![StartupHook] = "up"]
            /\ UNCHANGED <<pools_created, got_pool>>
    /\ UNCHANGED <<database_url, db_pool, run_id, snapshot_at, results,
                   table, clock, uuids, scoreVars, dayVars>>

\* asyncpg.create_pool returns to caller p: line 48 assigns, line 49 returns
CreatePoolReturns(p) ==
    /\ pc[p] = "creating"
    /\ db_pool' = PoolOf(p)
    /\ got_pool' = [got_pool EXCEPT ![p] = PoolOf(p)]
    /\ pc' = [pc EXCEPT ![p] = AfterPool(p)]
    /\ UNCHANGED <<database_url, pools_created, run_id, snapshot_at,
                   results, table, clock, uuids, scoreVars, dayVars>>

CreatePoolRaises(p) ==
    /\ pc[p] = "creating"
    /\ pc' = [pc EXCEPT ![p] = "raised"]
    /\ UNCHANGED <<database_url, db_pool, pools_created, got_pool, run_id,
                   snapshot_at, results, table, clock, uuids, scoreVars, dayVars>>

\* ensure_tables: the create-table statement returns, or raises
EnsureTablesReturns ==
    /\ pc[StartupHook] = "ddl"
    /\ pc' = [pc EXCEPT ![StartupHook] = "up"]
    /\ UNCHANGED <<database_url, db_pool, pools_created, got_pool, run_id,
                   snapshot_at, results, table, clock, uuids, scoreVars, dayVars>>

EnsureTablesRaises ==
    /\ pc[StartupHook] = "ddl"
    /\ pc' = [pc EXCEPT ![StartupHook] = "raised"]
    /\ UNCHANGED <<database_url, db_pool, pools_created, got_pool, run_id,
                   snapshot_at, results, table, clock, uuids, scoreVars, dayVars>>

\* collect_insurer_florida, lines 298-301
BeginRun(r) ==
    /\ pc[StartupHook] = "up"
    /\ pc[r] = "idle"
    /\ \A q \in Runs : q < r => pc[q] # "idle"
    /\ run_id' = [run_id EXCEPT ![r] = uuids + 1]
    /\ uuids' = uuids + 1
    /\ snapshot_at' = [snapshot_at EXCEPT ![r] = clock]
    /\ clock' = clock + 1
    /\ results' = [results EXCEPT ![r] = <<>>]
    /\ pc' = [pc EXCEPT ![r] = "loop"]
    /\ UNCHANGED <<database_url, db_pool, pools_created, got_pool, table,
                   scoreVars, dayVars>>

\* one turn of the loop, lines 302-308 up to the first await of
\* record_snapshot; after the last county, lines 318-325.  The county of the
\* turn is the one after those already in results.
LoopStep(r) ==
    /\ pc[r] = "loop"
    /\ IF Len(results[r]) = Len(STARTER_FL_COUNTIES)
       THEN /\ pc' = [pc EXCEPT ![r] = "done"]
            /\ UNCHANGED <<results, pools_created, got_pool>>
       ELSE LET county == STARTER_FL_COUNTIES[Len(results[r]) + 1]
                payload == compute_insurer_fl_county(county, MonthOf(clock))
            IN  /\ results' = [results EXCEPT ![r] = Append(@, payload)]
                /\ IF database_url
                   THEN GetDbPoolEnter(r)
                   ELSE UNCHANGED <<pc, pools_created, got_pool>>
    /\ UNCHANGED <<database_url, db_pool, run_id, snapshot_at, table, clock, uuids,
                   scoreVars, dayVars>>

\* the row that run r's call of record_snapshot, line 308, inserts: the
\* payload is the one just appended to results
InsertRow(r) ==
    LET payload == results[r][Len(results[r])]
    IN  record_snapshot(run_id[r], snapshot_at[r], "Florida",
                        STARTER_FL_COUNTIES[Len(results[r])],
                        payload.scores, payload.state, "v1")

\* record_snapshot, line 88: pool.acquire() hands out a connection
AcquireReturns(r) ==
    /\ pc[r] = "acquire"
    /\ pc' = [pc EXCEPT ![r] = "execute"]
    /\ UNCHANGED <<database_url, db_pool, pools_created, got_pool, run_id,
                   snapshot_at, results, table, clock, uuids, scoreVars, dayVars>>

\* pool.acquire() raises, or the request is cancelled while it waits
AcquireRaises(r) ==
    /\ pc[r] = "acquire"
    /\ pc' = [pc EXCEPT ![r] = "raised"]
    /\ UNCHANGED <<database_url, db_pool, pools_created, got_pool, run_id,
                   snapshot_at, results, table, clock, uuids, scoreVars, dayVars>>

\* lines 89-102: conn.execute returns, the row is in the table
ExecuteReturns(r) ==
    /\ pc[r] = "execute"
    /\ table' = table (+) SetToBag({InsertRow(r)})
    /\ pc' = [pc EXCEPT ![r] = "release"]
    /\ UNCHANGED <<database_url, db_pool, pools_created, got_pool, run_id,
                   snapshot_at, results, clock, uuids, scoreVars, dayVars>>

\* conn.execute raises, or the request is cancelled while it waits: the
\* server has applied the statement or it has not.  The exception is on its
\* way out of "async with", line 88, whose exit awaits the release of the
\* connection.
ExecuteRaises(r) ==
    /\ pc[r] = "execute"
    /\ \E applied \in BOOLEAN :
         table' = IF applied THEN table (+) SetToBag({InsertRow(r)}) ELSE table
    /\ pc' = [pc EXCEPT ![r] = "release_exc"]
    /\ UNCHANGED <<database_url, db_pool, pools_created, got_pool, run_id,
                   snapshot_at, results, clock, uuids, scoreVars, dayVars>>

\* line 88, the end of "async with": the release returns, record_snapshot
\* returns and the loop goes to the next county
ReleaseReturns(r) ==
    /\ pc[r] = "release"
    /\ pc' = [pc EXCEPT ![r] = "loop"]
    /\ UNCHANGED <<database_url, db_pool, pools_created, got_pool, run_id,
                   snapshot_at, results, table, clock, uuids, scoreVars, dayVars>>

\* the release raises, or the request is cancelled while it waits: the row
\* stays, the exception leaves the handler
ReleaseRaises(r) ==
    /\ pc[r] = "release"
    /\ pc' = [pc EXCEPT ![r] = "raised"]
    /\ UNCHANGED <<database_url, db_pool, pools_created, got_pool, run_id,
                   snapshot_at, results, table, clock, uuids, scoreVars, dayVars>>

\* line 88, the end of "async with" on the exception path: the release
\* returns and the exception of conn.execute leaves the handler
ReleaseExcReturns(r) ==
    /\ pc[r] = "release_exc"
    /\ pc' = [pc EXCEPT ![r] = "raised"]
    /\ UNCHANGED <<database_url, db_pool, pools_created, got_pool, run_id,
                   snapshot_at, results, table, clock, uuids, scoreVars, dayVars>>

\* the release on the exception path raises itself, or the request is
\* cancelled while it waits: that exception leaves the handler instead
ReleaseExcRaises(r) ==
    /\ pc[r] = "release_exc"
    /\ pc' = [pc EXCEPT ![r] = "raised"]
    /\ UNCHANGED <<database_url, db_pool, pools_created, got_pool, run_id,
                   snapshot_at, results, table, clock, uuids, scoreVars, dayVars>>

CreatePoolReturnsAny == \E p \in Callers : CreatePoolReturns(p)
CreatePoolRaisesAny  == \E p \in Callers : CreatePoolRaises(p)
BeginRunAny          == \E r \in Runs : BeginRun(r)
LoopStepAny          == \E r \in Runs : LoopStep(r)
AcquireReturnsAny    == \E r \in Runs : AcquireReturns(r)
AcquireRaisesAny     == \E r \in Runs : AcquireRaises(r)
ExecuteReturnsAny    == \E r \in Runs : ExecuteReturns(r)
ExecuteRaisesAny     == \E r \in Runs : ExecuteRaises(r)
ReleaseReturnsAny    == \E r \in Runs : ReleaseReturns(r)
ReleaseRaisesAny     == \E r \in Runs : ReleaseRaises(r)
ReleaseExcReturnsAny == \E r \in Runs : ReleaseExcReturns(r)
ReleaseExcRaisesAny  == \E r \in Runs : ReleaseExcRaises(r)

Next ==
    \/ Startup
    \/ CreatePoolReturnsAny
    \/ CreatePoolRaisesAny
    \/ EnsureTablesReturns
    \/ EnsureTablesRaises
    \/ BeginRunAny
    \/ LoopStepAny
    \/ AcquireReturnsAny
    \/ AcquireRaisesAny
    \/ ExecuteReturnsAny
    \/ ExecuteRaisesAny
    \/ ReleaseReturnsAny
    \/ ReleaseRaisesAny
    \/ ReleaseExcReturnsAny
    \/ ReleaseExcRaisesAny

Spec == InitCollector /\ [][Next]_vars

-----------------------------------------------------------------------------
(* Properties of the scoring engine, under SpecScoring *)

\* C1: compute_insurer_fl_county, with its placeholder inputs, returns for
\* every month and every county name HeatScore 10, RainScore 10, WindScore 5,
\* WPS 9, ISS 20.4, CAI 14.28 and the state "Stable".
C1_PlaceholderReport ==
    fn = "compute_insurer_fl_county" =>
        /\ result.county = args[1]
        /\ result.scores.HeatScore = R(10)
        /\ result.scores.RainScore = R(10)
        /\ result.scores.WindScore = R(5)
        /\ result.scores.WPS = R(9)
        /\ result.scores.ISS = Tenths(204)
        /\ result.scores.CAI = FDec(1428, 2)
        /\ result.state = "Stable"

C1_Witness ==
    /\ fn = "compute_insurer_fl_county"
    /\ args[1] = "Alachua"
    /\ args[2] = 12
    /\ result.scores.CAI = FDec(1428, 2)

\* C2: label_state is a first-match cascade: cai >= 85 gives "Surge Risk"
\* whatever av is; otherwise cai >= 70 and av >= 56 gives "High Risk +
\* Accelerating"; otherwise av >= 76 gives "Momentum Surge"; otherwise
\* cai >= 55 or av >= 56 gives "Building"; otherwise "Stable".  So each label
\* is returned on exactly its region of the (cai, av) square, and
\* label_state(90, 10) is "Surge Risk", label_state(50, 80) "Momentum Surge".
C2_LabelCascade ==
    fn = "label_state" =>
        LET cai == args[1]
            av  == args[2]
            surge == Ge(cai, R(85))
            high  == ~surge /\ Ge(cai, R(70)) /\ Ge(av, R(56))
            mom   == ~surge /\ ~high /\ Ge(av, R(76))
            build == ~surge /\ ~high /\ ~mom /\ (Ge(cai, R(55)) \/ Ge(av, R(56)))
        IN  /\ (result = "Surge Risk") <=> surge
            /\ (result = "High Risk + Accelerating") <=> high
            /\ (result = "Momentum Surge") <=> mom
            /\ (result = "Building") <=> build
            /\ (result = "Stable") <=> ~(surge \/ high \/ mom \/ build)
            /\ (cai = R(90) /\ av = R(10)) => result = "Surge Risk"
            /\ (cai = R(50) /\ av = R(80)) => result = "Momentum Surge"

C2_Witness ==
    /\ fn = "label_state"
    /\ args = <<R(50), R(80)>>
    /\ result = "Momentum Surge"

\* C7: apply_florida_wind_nuance returns min(sts + 10, 100) exactly when
\* wind_today - wind_48h_ago >= 25 and wind_today >= 55 and (tropical_flag or
\* forecast >= 55), and sts unchanged in every other case; (30, 60, 30, 60,
\* false) gives 40 and (30, 60, 30, 50, false) gives 30.
C7_WindNuance ==
    fn = "apply_florida_wind_nuance" =>
        LET sts == args[1]
            escalating == /\ Ge(FSub(args[2], args[3]), R(25))
                          /\ Ge(args[2], R(55))
                          /\ (args[5] \/ Ge(args[4], R(55)))
        IN  /\ escalating => result = (IF Lt(FAdd(sts, R(10)), R(100)) THEN FAdd(sts, R(10)) ELSE R(100))
            /\ ~escalating => result = sts
            /\ args = <<R(30), R(60), R(30), R(60), FALSE>> => result = R(40)
            /\ args = <<R(30), R(60), R(30), R(50), FALSE>> => result = R(30)

C7_Witness ==
    /\ fn = "apply_florida_wind_nuance"
    /\ args = <<R(30), R(60), R(30), R(60), FALSE>>
    /\ result = R(40)

InRange(x) == Le(R(0), x) /\ Le(x, R(MaxScore))

\* C8: for every observation of the documented domain, persistence and das in
\* [0,100], a CAI history in [0,100] and a wind score of 48 hours ago in
\* [0,100], HeatScore, RainScore, WindScore, WPS, ISS, CAI, VEX, AV and the
\* STS after the wind adjustment are in [0,100] and FPC is one of
\* 15, 35, 60, 80, 95.
C8_ScoresInRange ==
    fn = "pipeline" =>
        /\ InRange(result.scores.HeatScore)
        /\ InRange(result.scores.RainScore)
        /\ InRange(result.scores.WindScore)
        /\ InRange(result.scores.WPS)
        /\ InRange(result.scores.ISS)
        /\ InRange(result.scores.CAI)
        /\ InRange(result.scores.STS)
        /\ InRange(result.scores.VEX)
        /\ InRange(result.scores.AV)
        /\ result.scores.FPC \in {R(15), R(35), R(60), R(80), R(95)}

\* the blend for ISS exceeds 100 before clamp, and the adjusted STS meets its cap
C8_Witness ==
    /\ fn = "pipeline"
    /\ args[1] = R(121) /\ args[5] = R(1200) /\ args[6] = R(100)
    /\ result.scores.ISS = R(100)
    /\ Ge(FSub(result.scores.WindScore, args[9]), R(25))
    /\ result.scores.STS = R(100)

\* C10: fpc_from_forecast is non-decreasing in forecast_wps_3d_avg: with
\* tropical_flag false and one wind score, for forecasts a <= b among the
\* multiples of 0.5 in [0,100], the score for a is at most the score for b.
C10_FpcMonotone ==
    fn = "fpc_from_forecast" => Le(result[1], result[2])

-----------------------------------------------------------------------------
(* Properties of the daily-status route, under SpecDaymark *)

\* C3: a failure of one external feed degrades to "signal unavailable" for
\* that feed only: the request still completes and returns a response,
\* rather than failing as a whole.
C3_FeedFailureDegrades ==
    feed_failed # "none" => dpc # "raised"

\* C5: the score is set by the alert count alone (0 adds 0, 1 adds 20, 2 or
\* more add 35); the air-quality branch appends exactly one driver and never
\* changes the score; the status is the tier of the score; so the result is
\* (0, GREEN), (20, GREEN) or (35, YELLOW).
C5_ScoreFromAlertsOnly ==
    /\ dpc = "airnow" =>
         /\ score = (IF alert_count = 0 THEN 0 ELSE IF alert_count = 1 THEN 20 ELSE 35)
         /\ Len(drivers) = 1
    /\ dpc = "returned" =>
         /\ response.score = (IF alert_count = 0 THEN 0
                              ELSE IF alert_count = 1 THEN 20 ELSE 35)
         /\ Len(response.drivers) = 2
         /\ response.drivers[2].text \in
              {"Air quality data unavailable", "Air quality: Good",
               "Air quality: Moderate", "Air quality: Unhealthy"}
         /\ response.status = (IF response.score <= 24 THEN "GREEN"
                               ELSE IF response.score <= 44 THEN "YELLOW"
                               ELSE IF response.score <= 64 THEN "ORANGE" ELSE "RED")
         /\ <<response.score, response.status>> \in
              {<<0, "GREEN">>, <<20, "GREEN">>, <<35, "YELLOW">>}

C5_Witness ==
    /\ dpc = "returned"
    /\ alert_count >= 2
    /\ aqi = Some(101)
    /\ response.score = 35
    /\ response.status = "YELLOW"

\* the position of the first occurrence of x in seq
FirstIndex(seq, x) ==
    CHOOSE k \in 1..Len(seq) : seq[k] = x /\ \A m \in 1..(k - 1) : seq[m] # x

\* C6: the add_items list returned never holds an item twice, holds every
\* item accumulated by the alert and air-quality branches and no other, and
\* holds them in the order of their first occurrence in the accumulated list.
C6_GearDeduplicated ==
    dpc = "returned" =>
        LET out == response.add_items
            acc == add_items
        IN  /\ \A i, j \in 1..Len(out) : i # j => out[i] # out[j]
            /\ \A k \in 1..Len(acc) : \E i \in 1..Len(out) : out[i] = acc[k]
            /\ \A i \in 1..Len(out) : \E k \in 1..Len(acc) : acc[k] = out[i]
            /\ \A i, j \in 1..Len(out) :
                 i < j => FirstIndex(acc, out[i]) < FirstIndex(acc, out[j])

C6_Witness ==
    /\ dpc = "returned"
    /\ alert_count >= 2
    /\ aqi # None
    /\ aqi[1] > 100
    /\ response.add_items = <<"rain shell", "phone waterproof pouch",
                              "small flashlight", "power bank",
                              "N95 mask (air quality)">>

-----------------------------------------------------------------------------
(* Properties of the application process, under Spec *)

RowsOfRun(r) == {x \in BagToSet(table) : x.run_id = run_id[r]}

RunRowsComplete ==
    \A r \in Runs :
        (database_url /\ pc[r] = "done") =>
            /\ \A i \in 1..Len(STARTER_FL_COUNTIES) :
                 LET m == {x \in RowsOfRun(r) : x.county = STARTER_FL_COUNTIES[i]}
                 IN  /\ Cardinality(m) = 1
                     /\ \A x \in m : CopiesIn(x, table) = 1
            /\ \A x \in RowsOfRun(r) :
                 /\ x.snapshot_at = snapshot_at[r]
                 /\ \E i \in 1..Len(STARTER_FL_COUNTIES) : x.county = STARTER_FL_COUNTIES[i]

\* C4: with DATABASE_URL set, every completed run of collect_insurer_florida
\* has inserted exactly one row for each of the six counties, all carrying
\* the run's one run_id and snapshot_at; and whatever the interleaving of
\* runs, no row of the table is ever changed or removed.
C4_AppendOnlyOneRowPerCounty ==
    /\ []RunRowsComplete
    /\ [][table \sqsubseteq table']_vars

C4_Witness ==
    /\ database_url
    /\ \A r \in Runs : pc[r] = "done"
    /\ BagCardinality(table) = MaxRuns * Len(STARTER_FL_COUNTIES)
    /\ \E r \in Runs : snapshot_at[r] < clock

\* C9: asyncpg.create_pool is called at most once in the life of the process,
\* and every caller of get_db_pool receives the same pool.
C9_PoolCreatedOnce ==
    /\ pools_created <= 1
    /\ \A p, q \in Callers :
         (got_pool[p] # 0 /\ got_pool[q] # 0) => got_pool[p] = got_pool[q]

\* two collection requests in flight, each holding the pool the hook created
C9_Witness ==
    /\ pools_created = 1
    /\ \E r1, r2 \in Runs :
         /\ r1 # r2
         /\ pc[r1] = "execute" /\ pc[r2] = "execute"
         /\ got_pool[r1] = PoolOf(StartupHook)
         /\ got_pool[r2] = PoolOf(StartupHook)

====
